---- MODULE Spec2Model ----
(***************************************************************************)
(* Driver daily-log server (src/server.js): the ingestion handler          *)
(* POST /api/logs, the admin view GET /admin and the two CSV exports, over *)
(* the two SQLite tables logs and stops.                                   *)
(*                                                                         *)
(* Every handler is synchronous (better-sqlite3 has no asynchronous calls, *)
(* the handlers contain no await), so Node runs each one to completion     *)
(* before the next request is looked at: simultaneous requests are served  *)
(* in some order, one whole handler at a time.  Each handler is therefore  *)
(* one action, and Next chooses the order.  resp is the response on its    *)
(* way to the client, history the submissions handled so far.              *)
(***************************************************************************)
EXTENDS Integers, Sequences, FiniteSets, TLC

VARIABLES logs, stops, sqlite_sequence, now, env, resp, history

vars == <<logs, stops, sqlite_sequence, now, env, resp, history>>

(***************************************************************************)
(* Bounds of the model.                                                    *)
(***************************************************************************)
MaxLogs == 2        \* submissions handled in one run
MaxDay == 2         \* days the clock runs through

(***************************************************************************)
(* JavaScript / JSON values.  One record shape for all of them, so that    *)
(* any two values can be compared: t is the type, n the number, s the      *)
(* string.  NaN is a number in JavaScript; it has its own tag here.        *)
(* SQLite values use the same records (NULL is t = "null").                *)
(***************************************************************************)
Undef == [t |-> "undefined", n |-> 0, s |-> ""]
Null == [t |-> "null", n |-> 0, s |-> ""]
NaN == [t |-> "NaN", n |-> 0, s |-> ""]
Obj == [t |-> "object", n |-> 0, s |-> ""]
True == [t |-> "boolean", n |-> 1, s |-> ""]
False == [t |-> "boolean", n |-> 0, s |-> ""]
Num(k) == [t |-> "number", n |-> k, s |-> ""]
Str(x) == [t |-> "string", n |-> 0, s |-> x]

(***************************************************************************)
(* Strings.  TLC cannot index a string, so the characters of every string  *)
(* the model compares, matches or parses are tabulated.                    *)
(***************************************************************************)
Texts ==
  {"", "2024-01-01", "2024-01-02", "2024-01-03", "2024-01-04", "2024-01-05",
   "Ann", "Bob", "An", "b", "_", "%An%", "%b%", "%_%", "7", "12", "abc"}

CharsOf ==
  [x \in Texts |->
     CASE x = "" -> <<>>
       [] x = "2024-01-01" -> <<"2","0","2","4","-","0","1","-","0","1">>
       [] x = "2024-01-02" -> <<"2","0","2","4","-","0","1","-","0","2">>
       [] x = "2024-01-03" -> <<"2","0","2","4","-","0","1","-","0","3">>
       [] x = "2024-01-04" -> <<"2","0","2","4","-","0","1","-","0","4">>
       [] x = "2024-01-05" -> <<"2","0","2","4","-","0","1","-","0","5">>
       [] x = "Ann" -> <<"A","n","n">>
       [] x = "Bob" -> <<"B","o","b">>
       [] x = "An" -> <<"A","n">>
       [] x = "b" -> <<"b">>
       [] x = "%An%" -> <<"%","A","n","%">>
       [] x = "%b%" -> <<"%","b","%">>
       [] x = "_" -> <<"_">>
       [] x = "%_%" -> <<"%","_","%">>
       [] x = "7" -> <<"7">>
       [] x = "12" -> <<"1","2">>
       [] x = "abc" -> <<"a","b","c">>]

Chars(x) == CharsOf[x]

\* The byte of a character (ASCII), for memcmp and for digits.
CodeOf ==
  ("%" :> 37) @@ ("-" :> 45) @@ ("0" :> 48) @@ ("1" :> 49) @@ ("2" :> 50)
  @@ ("3" :> 51) @@ ("4" :> 52) @@ ("5" :> 53) @@ ("6" :> 54) @@ ("7" :> 55)
  @@ ("8" :> 56) @@ ("9" :> 57) @@ ("A" :> 65) @@ ("B" :> 66) @@ ("_" :> 95)
  @@ ("a" :> 97) @@ ("b" :> 98) @@ ("c" :> 99) @@ ("n" :> 110) @@ ("o" :> 111)

Code(c) == CodeOf[c]

IsDigit(c) == Code(c) >= 48 /\ Code(c) <= 57

\* ASCII upper case folded to lower case, as LIKE does.
Lower(c) == IF Code(c) >= 65 /\ Code(c) <= 90 THEN Code(c) + 32 ELSE Code(c)

RECURSIVE DecimalValue(_, _)
DecimalValue(cs, acc) ==
  IF cs = <<>> THEN acc
  ELSE DecimalValue(Tail(cs), 10 * acc + (Code(Head(cs)) - 48))

\* Number(string): the empty string is 0, a run of digits its value,
\* anything else NaN (over the strings of the model).
StringToNumber(x) ==
  LET cs == Chars(x) IN
  IF cs = <<>> THEN Num(0)
  ELSE IF \A i \in 1..Len(cs) : IsDigit(cs[i]) THEN Num(DecimalValue(cs, 0))
  ELSE NaN

\* The text SQLite renders an integer as (over the integers of the model).
IntToText(k) ==
  CASE k = 0 -> "0" [] k = 1 -> "1" [] k = 2 -> "2" [] k = 7 -> "7"
    [] k = 12 -> "12" [] k = 50 -> "50" [] k = 100 -> "100"

(***************************************************************************)
(* JavaScript operators used by the handlers.                              *)
(***************************************************************************)
\* ToBoolean.
Truthy(v) ==
  CASE v.t = "undefined" -> FALSE
    [] v.t = "null" -> FALSE
    [] v.t = "NaN" -> FALSE
    [] v.t = "boolean" -> v.n = 1
    [] v.t = "number" -> v.n # 0
    [] v.t = "string" -> v.s # ""
    [] v.t = "object" -> TRUE

\* a || b
Or(a, b) == IF Truthy(a) THEN a ELSE b

\* a ?? b
Coalesce(a, b) == IF a.t \in {"undefined", "null"} THEN b ELSE a

\* Number(v); the object of the model is a plain object, whose number is NaN.
ToNumber(v) ==
  CASE v.t = "undefined" -> NaN
    [] v.t = "null" -> Num(0)
    [] v.t = "NaN" -> NaN
    [] v.t = "boolean" -> Num(v.n)
    [] v.t = "number" -> v
    [] v.t = "string" -> StringToNumber(v.s)
    [] v.t = "object" -> NaN

(***************************************************************************)
(* The storage layer: binding a parameter and storing it in a column.      *)
(***************************************************************************)
\* better-sqlite3 binds numbers, strings and null; any other value makes
\* Statement.run throw a TypeError before the statement runs.
CanBind(v) == v.t \in {"number", "NaN", "string", "null"}

CanRun(params) == \A i \in 1..Len(params) : CanBind(params[i])

\* A column of TEXT affinity: a number is stored as its text; NaN is bound
\* as a double, which SQLite stores as NULL.
StoreText(v) ==
  CASE v.t = "number" -> Str(IntToText(v.n))
    [] v.t = "NaN" -> Null
    [] OTHER -> v

\* A column of REAL or INTEGER affinity: NaN is stored as NULL, text that
\* looks like a number as that number.
StoreNumeric(v) ==
  CASE v.t = "NaN" -> Null
    [] v.t = "string" -> (IF StringToNumber(v.s).t = "number" /\ v.s # ""
                          THEN StringToNumber(v.s) ELSE v)
    [] OTHER -> v

\* dayjs().format("YYYY-MM-DD") and dayjs().toISOString() on day t.
DateTable == <<"2024-01-01", "2024-01-02", "2024-01-03", "2024-01-04", "2024-01-05">>
FormatDate(t) == DateTable[t]
ToISOString(t) == DateTable[t] \o "T12:00:00.000Z"

(***************************************************************************)
(* POST /api/logs                                                          *)
(***************************************************************************)
\* const d = req.body || {}
EmptyBody ==
  [date |-> Undef, driver_name |-> Undef, driver_email |-> Undef,
   cc_email |-> Undef, truck_num |-> Undef, start_miles |-> Undef,
   end_miles |-> Undef, start_time |-> Undef, end_time |-> Undef,
   rate_mile |-> Undef, rate_hour |-> Undef, total_miles |-> Undef,
   total_time |-> Undef, total_detention |-> Undef,
   total_value_hours |-> Undef, gross_pay |-> Undef,
   stops |-> [t |-> "undefined", items |-> <<>>]]

Body(req) == IF req.hasBody THEN req.body ELSE EmptyBody

\* The 17 parameters of insLog.run, in order.
LogParams(d, t) ==
  << Str(ToISOString(t)),
     Or(d.date, Str(FormatDate(t))),
     Or(d.driver_name, Str("")),
     Or(d.driver_email, Str("")),
     Or(d.cc_email, Str("")),
     Or(d.truck_num, Str("")),
     ToNumber(Or(d.start_miles, Num(0))),
     ToNumber(Or(d.end_miles, Num(0))),
     Or(d.start_time, Str("")),
     Or(d.end_time, Str("")),
     ToNumber(Or(d.rate_mile, Num(0))),
     ToNumber(Or(d.rate_hour, Num(0))),
     ToNumber(Or(d.total_miles, Num(0))),
     Or(d.total_time, Str("")),
     Or(d.total_detention, Str("")),
     ToNumber(Or(d.total_value_hours, Num(0))),
     ToNumber(Or(d.gross_pay, Num(0))) >>

\* The row INSERT INTO logs stores for parameters a, under the columns'
\* affinities.
LogRow(id, a) ==
  [id |-> id,
   created_at |-> StoreText(a[1]),
   date |-> StoreText(a[2]),
   driver_name |-> StoreText(a[3]),
   driver_email |-> StoreText(a[4]),
   cc_email |-> StoreText(a[5]),
   truck_num |-> StoreText(a[6]),
   start_miles |-> StoreNumeric(a[7]),
   end_miles |-> StoreNumeric(a[8]),
   start_time |-> StoreText(a[9]),
   end_time |-> StoreText(a[10]),
   rate_mile |-> StoreNumeric(a[11]),
   rate_hour |-> StoreNumeric(a[12]),
   total_miles |-> StoreNumeric(a[13]),
   total_time |-> StoreText(a[14]),
   total_detention |-> StoreText(a[15]),
   total_value_hours |-> StoreNumeric(a[16]),
   gross_pay |-> StoreNumeric(a[17])]

\* id INTEGER PRIMARY KEY AUTOINCREMENT: one more than the largest id the
\* table ever held, which sqlite_sequence keeps.
Autoincrement(seq) == seq + 1

\* info.lastInsertRowid after insLog.run on a table whose sequence was seq.
LastInsertRowid(seq) == Autoincrement(seq)

\* Array.isArray(d.stops) ? d.stops : []
StopsOf(d) == IF d.stops.t = "array" THEN d.stops.items ELSE <<>>

\* Reading a property of s throws a TypeError when s is null; a number, a
\* string or a boolean has none of the properties (all undefined).
PropertyReadThrows(s) == s.t = "null"

\* The 10 parameters of insStop.run for the stop s of log logId.
StopParams(logId, s) ==
  << Num(logId),
     ToNumber(Or(s.f.stop_no, Num(0))),
     Or(s.f.type, Str("")),
     Or(s.f.location, Str("")),
     Or(s.f.arrive, Str("")),
     Or(s.f.depart, Str("")),
     Or(s.f.duration, Str("")),
     Or(s.f.detention, Str("")),
     IF s.f.value_hours = Str("") THEN Null
     ELSE ToNumber(Or(s.f.value_hours, Num(0))),
     Or(s.f.grain_phase, Str("")) >>

StopRow(id, a) ==
  [id |-> id,
   log_id |-> a[1].n,
   stop_no |-> StoreNumeric(a[2]),
   type |-> StoreText(a[3]),
   location |-> StoreText(a[4]),
   arrive |-> StoreText(a[5]),
   depart |-> StoreText(a[6]),
   duration |-> StoreText(a[7]),
   detention |-> StoreText(a[8]),
   value_hours |-> StoreNumeric(a[9]),
   grain_phase |-> StoreText(a[10])]

\* The loop inside the transaction: one insStop.run per element, up to the
\* first one that throws.
RECURSIVE TxBody(_, _, _, _)
TxBody(rows, logId, tbl, seq) ==
  IF rows = <<>> THEN [threw |-> FALSE, stops |-> tbl, seq |-> seq]
  ELSE IF PropertyReadThrows(Head(rows))
       THEN [threw |-> TRUE, stops |-> tbl, seq |-> seq]
  ELSE IF ~CanRun(StopParams(logId, Head(rows)))
       THEN [threw |-> TRUE, stops |-> tbl, seq |-> seq]
  ELSE TxBody(Tail(rows), logId,
              Append(tbl, StopRow(Autoincrement(seq),
                                  StopParams(logId, Head(rows)))),
              Autoincrement(seq))

\* Transaction without its ROLLBACK: what the loop wrote stays.
TransactionNoRollback(rows, logId, tbl, seq) == TxBody(rows, logId, tbl, seq)

\* db.transaction(fn)(rows): BEGIN, the loop, COMMIT; ROLLBACK of what the
\* loop wrote (the stops table and its sequence) when it throws.
Transaction(rows, logId, tbl, seq) ==
  LET r == TxBody(rows, logId, tbl, seq) IN
  IF r.threw THEN [threw |-> TRUE, stops |-> tbl, seq |-> seq] ELSE r

NoStats == [days |-> 0, miles |-> 0, value |-> 0, pay |-> 0]
NoQuery == [from |-> Undef, to |-> Undef, driver |-> Undef]

\* A response; the fields an endpoint does not send keep these values.
NoResp ==
  [op |-> "none", status |-> 0, ok |-> FALSE, id |-> 0, query |-> NoQuery,
   rows |-> <<>>, stats |-> NoStats, filters |-> <<"", "", "">>,
   disposition |-> "", contentType |-> "", columns |-> <<>>, lines |-> <<>>]

\* The handler.  An exception leaves the handler at the throwing statement;
\* Express answers it with status 500.
Submit(req) ==
  LET d == Body(req)
      a == LogParams(d, now)
      logId == LastInsertRowid(sqlite_sequence.logs)
      tx == Transaction(StopsOf(d), logId, stops, sqlite_sequence.stops)
  IN
  IF ~CanRun(a)
  THEN /\ resp' = [NoResp EXCEPT !.op = "submit", !.status = 500]
       /\ history' = Append(history,
            [req |-> req, at |-> now, threw |-> "insLog", id |-> 0])
       /\ UNCHANGED <<logs, stops, sqlite_sequence, now, env>>
  ELSE /\ logs' = Append(logs, LogRow(Autoincrement(sqlite_sequence.logs), a))
       /\ stops' = tx.stops
       /\ sqlite_sequence' = [logs |-> Autoincrement(sqlite_sequence.logs),
                              stops |-> tx.seq]
       /\ resp' = IF tx.threw
                  THEN [NoResp EXCEPT !.op = "submit", !.status = 500]
                  ELSE [NoResp EXCEPT !.op = "submit", !.status = 200,
                                      !.ok = TRUE, !.id = logId]
       /\ history' = Append(history,
            [req |-> req, at |-> now,
             threw |-> IF tx.threw THEN "tx" ELSE "no", id |-> logId])
       /\ UNCHANGED <<now, env>>

(***************************************************************************)
(* The admin gate.                                                         *)
(***************************************************************************)
\* requireAdmin: 500 when the credentials are not configured (an unset
\* variable reads as ""), 401 on missing or wrong credentials, 0 for next().
requireAdmin(creds) ==
  IF env.BASIC_AUTH_USER = "" \/ env.BASIC_AUTH_PASS = "" THEN 500
  ELSE IF ~creds.present \/ creds.name # env.BASIC_AUTH_USER
          \/ creds.pass # env.BASIC_AUTH_PASS THEN 401
  ELSE 0

(***************************************************************************)
(* SQL: comparison, LIKE, WHERE, ORDER BY.                                 *)
(***************************************************************************)
\* memcmp of two texts (BINARY collation): -1, 0 or 1.
RECURSIVE CmpChars(_, _)
CmpChars(a, b) ==
  IF a = <<>> /\ b = <<>> THEN 0
  ELSE IF a = <<>> THEN -1
  ELSE IF b = <<>> THEN 1
  ELSE IF Code(Head(a)) < Code(Head(b)) THEN -1
  ELSE IF Code(Head(a)) > Code(Head(b)) THEN 1
  ELSE CmpChars(Tail(a), Tail(b))

CmpText(x, y) == CmpChars(Chars(x), Chars(y))

\* pattern LIKE text: % matches any run, _ any one character, a letter
\* matches in either case.
RECURSIVE LikeChars(_, _)
LikeChars(pat, txt) ==
  IF pat = <<>> THEN txt = <<>>
  ELSE IF Head(pat) = "%"
       THEN LikeChars(Tail(pat), txt)
            \/ (txt # <<>> /\ LikeChars(pat, Tail(txt)))
  ELSE IF txt = <<>> THEN FALSE
  ELSE IF Head(pat) = "_" THEN LikeChars(Tail(pat), Tail(txt))
  ELSE Lower(Head(pat)) = Lower(Head(txt)) /\ LikeChars(Tail(pat), Tail(txt))

\* One clause of a WHERE against the logs row l, with its parameter; a
\* comparison with NULL is not true.
Clause(c, param, l) ==
  CASE c \in {"date >= ?", "l.date >= ?"} ->
         l.date.t = "string" /\ CmpText(l.date.s, param.s) >= 0
    [] c \in {"date <= ?", "l.date <= ?"} ->
         l.date.t = "string" /\ CmpText(l.date.s, param.s) <= 0
    [] c \in {"driver_name LIKE ?", "l.driver_name LIKE ?"} ->
         l.driver_name.t = "string"
         /\ LikeChars(Chars(param.s), Chars(l.driver_name.s))

\* WHERE c1 AND c2 ...; no clause, no WHERE.
Where(w, l) == \A i \in 1..Len(w.where) : Clause(w.where[i], w.params[i], l)

\* `%${driver}%`
Template(driver) == Str("%" \o driver.s \o "%")

\* ORDER BY date DESC, id DESC
AdminOrder(a, b) ==
  \/ CmpText(a.date.s, b.date.s) > 0
  \/ CmpText(a.date.s, b.date.s) = 0 /\ a.id > b.id

\* ORDER BY date ASC, id ASC
LogsExportOrder(a, b) ==
  \/ CmpText(a.date.s, b.date.s) < 0
  \/ CmpText(a.date.s, b.date.s) = 0 /\ a.id < b.id

\* An INTEGER column in ascending order: NULL first, then by value.
IntLess(x, y) ==
  IF x.t = "null" THEN y.t # "null"
  ELSE y.t # "null" /\ x.n < y.n

\* StopsExportOrder without s.stop_no: the stops of a log in rowid order.
StopsExportOrderByRowid(a, b) ==
  \/ CmpText(a.l.date.s, b.l.date.s) < 0
  \/ /\ CmpText(a.l.date.s, b.l.date.s) = 0
     /\ \/ a.l.id < b.l.id
        \/ a.l.id = b.l.id /\ a.s.id < b.s.id

\* ORDER BY l.date ASC, l.id ASC, s.stop_no ASC; rows equal in all three
\* come in the order of the scan of stops (by rowid).
StopsExportOrder(a, b) ==
  \/ CmpText(a.l.date.s, b.l.date.s) < 0
  \/ /\ CmpText(a.l.date.s, b.l.date.s) = 0
     /\ \/ a.l.id < b.l.id
        \/ /\ a.l.id = b.l.id
           /\ \/ IntLess(a.s.stop_no, b.s.stop_no)
              \/ a.s.stop_no = b.s.stop_no /\ a.s.id < b.s.id

(***************************************************************************)
(* GET /admin                                                              *)
(***************************************************************************)
AdminWhere(q) ==
  LET w1 == IF Truthy(q.from)
            THEN [where |-> <<"date >= ?">>, params |-> <<q.from>>]
            ELSE [where |-> <<>>, params |-> <<>>]
      w2 == IF Truthy(q.to)
            THEN [where |-> Append(w1.where, "date <= ?"),
                  params |-> Append(w1.params, q.to)]
            ELSE w1
  IN IF Truthy(q.driver)
     THEN [where |-> Append(w2.where, "driver_name LIKE ?"),
           params |-> Append(w2.params, Template(q.driver))]
     ELSE w2

\* SELECT * FROM logs ${whereSQL} ORDER BY date DESC, id DESC
AdminRows(q) ==
  LET w == AdminWhere(q) IN
  SortSeq(SelectSeq(logs, LAMBDA l : Where(w, l)), AdminOrder)

\* rows.reduce((s, r) => s + (r[col] || 0), 0)
RECURSIVE Reduce(_, _, _)
Reduce(rows, col, s) ==
  IF rows = <<>> THEN s
  ELSE Reduce(Tail(rows), col, s + Or(Head(rows)[col], Num(0)).n)

\* AdminStats over the whole table instead of the rows of the query.
AdminStatsOfTable(rows) ==
  [days |-> Len(logs),
   miles |-> Reduce(logs, "total_miles", 0),
   value |-> Reduce(logs, "total_value_hours", 0),
   pay |-> Reduce(logs, "gross_pay", 0)]

AdminStats(rows) ==
  [days |-> Len(rows),
   miles |-> Reduce(rows, "total_miles", 0),
   value |-> Reduce(rows, "total_value_hours", 0),
   pay |-> Reduce(rows, "gross_pay", 0)]

\* filters: { from: from || "", to: to || "", driver: driver || "" }
AdminFilters(q) ==
  << Or(q.from, Str("")).s, Or(q.to, Str("")).s, Or(q.driver, Str("")).s >>

Admin(creds, q) ==
  LET rows == AdminRows(q) IN
  /\ resp' = IF requireAdmin(creds) # 0
             THEN [NoResp EXCEPT !.op = "admin", !.status = requireAdmin(creds)]
             ELSE [NoResp EXCEPT !.op = "admin", !.status = 200, !.query = q,
                                 !.rows = rows, !.stats = AdminStats(rows),
                                 !.filters = AdminFilters(q)]
  /\ UNCHANGED <<logs, stops, sqlite_sequence, now, env, history>>

(***************************************************************************)
(* The exports.  A JavaScript object keeps its keys in insertion order: a  *)
(* row of out is the sequence of its <<key, value>> pairs.                 *)
(***************************************************************************)
\* Object.keys(out[0] || {})
FirstKeys(out) ==
  IF out = <<>> THEN <<>>
  ELSE [i \in 1..Len(out[1]) |-> out[1][i][1]]

\* record[column]: the value under the key, undefined without the key.
Field(rec, column) ==
  IF \E i \in 1..Len(rec) : rec[i][1] = column
  THEN rec[CHOOSE i \in 1..Len(rec) : rec[i][1] = column][2]
  ELSE Undef

\* sendCsv: the two response headers, then the stringifier's output: the
\* header row of the columns, and per row its values under the columns.
sendCsv(op, q, rows, columns) ==
  [NoResp EXCEPT !.op = op, !.status = 200, !.query = q,
     !.disposition = "attachment; filename=export.csv",
     !.contentType = "text/csv; charset=utf-8",
     !.columns = columns,
     !.lines = [i \in 1..Len(rows) |->
                  [j \in 1..Len(columns) |-> Field(rows[i], columns[j])]]]

\* LogsExportWhere without the driver clause.
LogsExportWhereNoDriver(q) ==
  LET w1 == IF Truthy(q.from)
            THEN [where |-> <<"date >= ?">>, params |-> <<q.from>>]
            ELSE [where |-> <<>>, params |-> <<>>]
  IN IF Truthy(q.to)
     THEN [where |-> Append(w1.where, "date <= ?"),
           params |-> Append(w1.params, q.to)]
     ELSE w1

LogsExportWhere(q) ==
  LET w1 == IF Truthy(q.from)
            THEN [where |-> <<"date >= ?">>, params |-> <<q.from>>]
            ELSE [where |-> <<>>, params |-> <<>>]
      w2 == IF Truthy(q.to)
            THEN [where |-> Append(w1.where, "date <= ?"),
                  params |-> Append(w1.params, q.to)]
            ELSE w1
  IN IF Truthy(q.driver)
     THEN [where |-> Append(w2.where, "driver_name LIKE ?"),
           params |-> Append(w2.params, Template(q.driver))]
     ELSE w2

\* SELECT * FROM logs ${whereSQL} ORDER BY date ASC, id ASC
LogsExportRows(q) ==
  LET w == LogsExportWhere(q) IN
  SortSeq(SelectSeq(logs, LAMBDA l : Where(w, l)), LogsExportOrder)

LogsExportOut(r) ==
  << <<"Date", r.date>>,
     <<"Driver Name", Or(r.driver_name, Str(""))>>,
     <<"Driver Email", Or(r.driver_email, Str(""))>>,
     <<"Truck #", Or(r.truck_num, Str(""))>>,
     <<"Start Miles", Or(r.start_miles, Num(0))>>,
     <<"End Miles", Or(r.end_miles, Num(0))>>,
     <<"Start Time", Or(r.start_time, Str(""))>>,
     <<"End Time", Or(r.end_time, Str(""))>>,
     <<"Rate/Mile", Or(r.rate_mile, Num(0))>>,
     <<"Hourly Rate", Or(r.rate_hour, Num(0))>>,
     <<"Total Miles", Or(r.total_miles, Num(0))>>,
     <<"Total Time", Or(r.total_time, Str(""))>>,
     <<"Total Detention", Or(r.total_detention, Str(""))>>,
     <<"Total Value (hrs)", Or(r.total_value_hours, Num(0))>>,
     <<"Gross Pay", Or(r.gross_pay, Num(0))>> >>

LogsExport(creds, q) ==
  LET rows == LogsExportRows(q)
      out == [i \in 1..Len(rows) |-> LogsExportOut(rows[i])]
  IN
  /\ resp' = IF requireAdmin(creds) # 0
             THEN [NoResp EXCEPT !.op = "daily_logs.csv",
                                 !.status = requireAdmin(creds)]
             ELSE sendCsv("daily_logs.csv", q, out, FirstKeys(out))
  /\ UNCHANGED <<logs, stops, sqlite_sequence, now, env, history>>

StopsExportWhere(q) ==
  LET w1 == IF Truthy(q.from)
            THEN [where |-> <<"l.date >= ?">>, params |-> <<q.from>>]
            ELSE [where |-> <<>>, params |-> <<>>]
      w2 == IF Truthy(q.to)
            THEN [where |-> Append(w1.where, "l.date <= ?"),
                  params |-> Append(w1.params, q.to)]
            ELSE w1
  IN IF Truthy(q.driver)
     THEN [where |-> Append(w2.where, "l.driver_name LIKE ?"),
           params |-> Append(w2.params, Template(q.driver))]
     ELSE w2

\* FROM stops s JOIN logs l ON l.id = s.log_id: per stop, the logs rows of
\* its log_id.
RECURSIVE StopsJoinLogs(_)
StopsJoinLogs(ss) ==
  IF ss = <<>> THEN <<>>
  ELSE LET ls == SelectSeq(logs, LAMBDA l : l.id = Head(ss).log_id)
       IN [i \in 1..Len(ls) |-> [l |-> ls[i], s |-> Head(ss)]]
          \o StopsJoinLogs(Tail(ss))

\* The joined rows the stops query selects from, filtered and ordered.
StopsExportJoined(q) ==
  LET w == StopsExportWhere(q) IN
  SortSeq(SelectSeq(StopsJoinLogs(stops), LAMBDA j : Where(w, j.l)),
          StopsExportOrder)

\* SELECT l.date, l.driver_name, l.truck_num, s.stop_no, ...
StopsExportRows(q) ==
  LET js == StopsExportJoined(q) IN
  [i \in 1..Len(js) |->
     [date |-> js[i].l.date, driver_name |-> js[i].l.driver_name,
      truck_num |-> js[i].l.truck_num, stop_no |-> js[i].s.stop_no,
      type |-> js[i].s.type, location |-> js[i].s.location,
      arrive |-> js[i].s.arrive, depart |-> js[i].s.depart,
      duration |-> js[i].s.duration, detention |-> js[i].s.detention,
      value_hours |-> js[i].s.value_hours,
      grain_phase |-> js[i].s.grain_phase]]

StopsExportOut(r) ==
  << <<"Date", r.date>>,
     <<"Driver Name", Or(r.driver_name, Str(""))>>,
     <<"Truck #", Or(r.truck_num, Str(""))>>,
     <<"Stop #", Or(r.stop_no, Num(0))>>,
     <<"Type", Or(r.type, Str(""))>>,
     <<"Location", Or(r.location, Str(""))>>,
     <<"Arrive", Or(r.arrive, Str(""))>>,
     <<"Depart", Or(r.depart, Str(""))>>,
     <<"Duration", Or(r.duration, Str(""))>>,
     <<"Detention", Or(r.detention, Str(""))>>,
     <<"Value (hrs)", Coalesce(r.value_hours, Str(""))>>,
     <<"Grain Phase", Or(r.grain_phase, Str(""))>> >>

StopsExport(creds, q) ==
  LET rows == StopsExportRows(q)
      out == [i \in 1..Len(rows) |-> StopsExportOut(rows[i])]
  IN
  /\ resp' = IF requireAdmin(creds) # 0
             THEN [NoResp EXCEPT !.op = "daily_stops.csv",
                                 !.status = requireAdmin(creds)]
             ELSE sendCsv("daily_stops.csv", q, out, FirstKeys(out))
  /\ UNCHANGED <<logs, stops, sqlite_sequence, now, env, history>>

\* GET /healthz
Healthz ==
  /\ resp' = [NoResp EXCEPT !.op = "healthz", !.status = 200]
  /\ UNCHANGED <<logs, stops, sqlite_sequence, now, env, history>>

\* A day passes.
Tick ==
  /\ now < MaxDay
  /\ now' = now + 1
  /\ UNCHANGED <<logs, stops, sqlite_sequence, env, resp, history>>

(***************************************************************************)
(* The requests the model sends.                                           *)
(***************************************************************************)
NoStopFields ==
  [stop_no |-> Undef, type |-> Undef, location |-> Undef, arrive |-> Undef,
   depart |-> Undef, duration |-> Undef, detention |-> Undef,
   value_hours |-> Undef, grain_phase |-> Undef]

\* An element of stops: an object with the given fields, or a value that is
\* not an object (null, a number), which has no fields.
StopObject(f) == [t |-> "object", f |-> f]
StopNull == [t |-> "null", f |-> NoStopFields]
StopNumber == [t |-> "number", f |-> NoStopFields]

Array(items) == [t |-> "array", items |-> items]
Post(body) == [hasBody |-> TRUE, body |-> body]

\* No body at all, and {}.
ReqNoBody == [hasBody |-> FALSE, body |-> EmptyBody]
ReqEmpty == Post(EmptyBody)

\* A complete day: a number for the truck, a numeric string for a rate, two
\* stops sent out of order, one with value_hours "".
ReqAnn ==
  Post([EmptyBody EXCEPT
    !.date = Str("2024-01-03"), !.driver_name = Str("Ann"),
    !.driver_email = Str("ann@example.com"), !.truck_num = Num(12),
    !.start_miles = Num(1000), !.end_miles = Num(1100),
    !.start_time = Str("06:00"), !.end_time = Str("16:00"),
    !.rate_mile = Str("7"), !.rate_hour = Num(20),
    !.total_miles = Num(100), !.total_time = Str("10:00"),
    !.total_detention = Str("0:30"), !.total_value_hours = Num(2),
    !.gross_pay = Num(50),
    !.stops = Array(<<
      StopObject([NoStopFields EXCEPT !.stop_no = Num(2), !.type = Str("Drop"),
                    !.location = Str("Elevator"), !.value_hours = Str("")]),
      StopObject([NoStopFields EXCEPT !.stop_no = Num(1), !.type = Str("Pickup"),
                    !.location = Str("Farm"), !.arrive = Str("07:00"),
                    !.depart = Str("08:00"), !.duration = Str("1:00"),
                    !.detention = Str("0:30"), !.value_hours = Num(1),
                    !.grain_phase = Str("harvest")]) >>)])

\* Non-numeric text in numeric fields of the header and of a stop, and an
\* element of stops that is a number.
ReqBob ==
  Post([EmptyBody EXCEPT
    !.date = Str("2024-01-01"), !.driver_name = Str("Bob"),
    !.cc_email = Null, !.total_miles = Num(50),
    !.total_value_hours = Str("abc"), !.gross_pay = Num(7),
    !.stops = Array(<<
      StopObject([NoStopFields EXCEPT !.stop_no = Str("abc"),
                    !.type = Str("Drop")]),
      StopNumber >>)])

\* A stop that is null after a good one; no date.
ReqNullStop ==
  Post([EmptyBody EXCEPT
    !.driver_name = Str("Ann"), !.total_miles = Num(7),
    !.stops = Array(<<
      StopObject([NoStopFields EXCEPT !.stop_no = Num(1)]), StopNull >>)])

\* A stop whose type is a boolean.
ReqBoolStop ==
  Post([EmptyBody EXCEPT
    !.driver_name = Str("Bob"), !.gross_pay = True,
    !.stops = Array(<<StopObject([NoStopFields EXCEPT !.type = True])>>)])

\* A header whose driver_name is a boolean.
ReqBoolName ==
  Post([EmptyBody EXCEPT !.driver_name = True, !.stops = Array(<<>>)])

\* stops that is no array, a numeric string for the miles.
ReqNoArray ==
  Post([EmptyBody EXCEPT
    !.date = Str("2024-01-02"), !.driver_name = Str("Bob"),
    !.total_miles = Str("7"), !.total_value_hours = Obj,
    !.stops = [t |-> "string", items |-> <<>>]])

Requests ==
  {ReqNoBody, ReqEmpty, ReqAnn, ReqBob, ReqNullStop, ReqBoolStop,
   ReqBoolName, ReqNoArray}

\* The requests sent while the admin reads.
Traffic == {ReqEmpty, ReqAnn, ReqBob, ReqNullStop, ReqBoolName}

\* req.query: every combination of from, to and driver present or absent,
\* one of empty texts, and one whose driver is a LIKE wildcard.
Queries ==
  [from : {Undef, Str("2024-01-02")},
   to : {Undef, Str("2024-01-02")},
   driver : {Undef, Str("An")}]
  \cup {[from |-> Str(""), to |-> Str(""), driver |-> Str("b")],
        [from |-> Undef, to |-> Undef, driver |-> Str("_")]}

Credentials ==
  {[present |-> FALSE, name |-> "", pass |-> ""],
   [present |-> TRUE, name |-> "admin", pass |-> "wrong"],
   [present |-> TRUE, name |-> "admin", pass |-> "secret"]}

Environments ==
  {[BASIC_AUTH_USER |-> "admin", BASIC_AUTH_PASS |-> "secret"],
   [BASIC_AUTH_USER |-> "", BASIC_AUTH_PASS |-> ""]}

(***************************************************************************)
(* The specification.                                                      *)
(***************************************************************************)
\* The tables as CREATE TABLE IF NOT EXISTS leaves a new database.
Init ==
  /\ logs = <<>>
  /\ stops = <<>>
  /\ sqlite_sequence = [logs |-> 0, stops |-> 0]
  /\ now = 1
  /\ env \in Environments
  /\ resp = NoResp
  /\ history = <<>>

GoodCredentials == [present |-> TRUE, name |-> "admin", pass |-> "secret"]

\* What an admin request carries: the right credentials with any query, or
\* other credentials.
Gets ==
  {[creds |-> GoodCredentials, q |-> q] : q \in Queries}
  \cup {[creds |-> c, q |-> NoQuery] : c \in Credentials \ {GoodCredentials}}

\* The connection carries one request at a time: the client reads the
\* response, and the server takes the next request.
Idle == resp.op = "none"

NextRequest ==
  /\ ~Idle
  /\ resp' = NoResp
  /\ UNCHANGED <<logs, stops, sqlite_sequence, now, env, history>>

PostLogs ==
  Idle /\ Len(history) < MaxLogs /\ \E req \in Traffic : Submit(req)
PostAnyLogs ==
  Idle /\ Len(history) < MaxLogs /\ \E req \in Requests : Submit(req)
GetAdmin == Idle /\ \E g \in Gets : Admin(g.creds, g.q)
GetDailyLogs == Idle /\ \E g \in Gets : LogsExport(g.creds, g.q)
GetDailyStops == Idle /\ \E g \in Gets : StopsExport(g.creds, g.q)
GetHealthz == Idle /\ Healthz

Next ==
  \/ PostLogs
  \/ GetAdmin
  \/ GetDailyLogs
  \/ GetDailyStops
  \/ GetHealthz
  \/ NextRequest
  \/ Tick

\* The server under submissions and admin reads.
Spec == Init /\ [][Next]_vars

NextIngest == PostAnyLogs \/ NextRequest \/ Tick

\* The ingestion endpoint alone, under every request of the model.
SpecIngest == Init /\ [][NextIngest]_vars

(***************************************************************************)
(* Properties.  What they say of a filter set is said apart from the       *)
(* handlers' WHERE: a filter is present when it is a non-empty text, and   *)
(* a LogEntry is in the filter when date >= from, date <= to and           *)
(* driver_name LIKE %driver% hold for the filters that are present.        *)
(***************************************************************************)
Present(v) == v.t = "string" /\ v.s # ""

InFilter(l, q) ==
  /\ Present(q.from) => CmpText(l.date.s, q.from.s) >= 0
  /\ Present(q.to) => CmpText(l.date.s, q.to.s) <= 0
  /\ Present(q.driver) =>
       LikeChars(<<"%">> \o Chars(q.driver.s) \o <<"%">>, Chars(l.driver_name.s))

Filtered(q) == {i \in 1..Len(logs) : InFilter(logs[i], q)}
FilteredIds(q) == {logs[i].id : i \in Filtered(q)}

IdsOf(rows) == {rows[i].id : i \in 1..Len(rows)}
ParentIdsOf(js) == {js[i].l.id : i \in 1..Len(js)}
StopsOfLog(id) == {i \in 1..Len(stops) : stops[i].log_id = id}

AdminAnswered == resp.op = "admin" /\ resp.status = 200
LogsCsvAnswered == resp.op = "daily_logs.csv" /\ resp.status = 200
StopsCsvAnswered == resp.op = "daily_stops.csv" /\ resp.status = 200

\* C2 as claimed: under one filter set the admin view, the log export and
\* the parents in the stop export are the same set of LogEntries, and a
\* matching LogEntry without stops is in all three.
C2_SameMembership ==
  AdminAnswered =>
    /\ IdsOf(resp.rows) = IdsOf(LogsExportRows(resp.query))
    /\ IdsOf(resp.rows) = ParentIdsOf(StopsExportJoined(resp.query))

\* C2 as amended: under one filter set the admin view and the log export
\* hold the same LogEntries, those the filter admits; the parents in the
\* stop export are those of them that have at least one stop.
C2_MembershipUpToStops ==
  AdminAnswered =>
    /\ IdsOf(resp.rows) = FilteredIds(resp.query)
    /\ IdsOf(LogsExportRows(resp.query)) = IdsOf(resp.rows)
    /\ ParentIdsOf(StopsExportJoined(resp.query))
         = {id \in IdsOf(resp.rows) : StopsOfLog(id) # {}}

\* The admin view answered under a driver filter that admits a LogEntry
\* with stops and one without.
C2_Witness ==
  /\ AdminAnswered
  /\ Present(resp.query.driver)
  /\ \E id \in IdsOf(resp.rows) : StopsOfLog(id) = {}
  /\ \E id \in IdsOf(resp.rows) : StopsOfLog(id) # {}

\* The number a stats sum counts a field as: 0 for NULL.
Counted(v) == IF v.t = "number" THEN v.n ELSE 0

RECURSIVE SumOver(_, _)
SumOver(S, col) ==
  IF S = {} THEN 0
  ELSE LET i == CHOOSE i \in S : TRUE
       IN Counted(logs[i][col]) + SumOver(S \ {i}, col)

\* C7: the stats of the admin view are the count of the filtered rows and
\* the sums of total_miles, total_value_hours and gross_pay over exactly
\* those rows, a NULL counted as 0; no row, all four 0.
C7_StatsOverFiltered ==
  AdminAnswered =>
    /\ resp.stats.days = Cardinality(Filtered(resp.query))
    /\ resp.stats.miles = SumOver(Filtered(resp.query), "total_miles")
    /\ resp.stats.value = SumOver(Filtered(resp.query), "total_value_hours")
    /\ resp.stats.pay = SumOver(Filtered(resp.query), "gross_pay")
    /\ Filtered(resp.query) = {} => resp.stats = NoStats

\* The admin view answered with a row that has miles and a NULL
\* total_value_hours, while the filter left a row with miles out.
C7_Witness ==
  /\ AdminAnswered
  /\ resp.stats.days >= 1
  /\ resp.stats.miles > 0
  /\ \E i \in 1..Len(resp.rows) : resp.rows[i].total_value_hours = Null
  /\ \E i \in 1..Len(logs) :
       i \notin Filtered(resp.query) /\ Counted(logs[i].total_miles) > 0

\* Ascending order of two texts, two ids, two stop numbers (NULL first).
DateBefore(a, b) == CmpText(a.s, b.s) < 0
SameDate(a, b) == CmpText(a.s, b.s) = 0
StopNoAtMost(a, b) == a = b \/ IntLess(a, b)

\* C8: the admin view lists its rows by date descending then id
\* descending; the log export emits by date ascending then id ascending;
\* the stop export by parent date, parent id, then stop number ascending.
C8_Ordering ==
  /\ AdminAnswered =>
       \A i, j \in 1..Len(resp.rows) : i < j =>
         \/ DateBefore(resp.rows[j].date, resp.rows[i].date)
         \/ /\ SameDate(resp.rows[i].date, resp.rows[j].date)
            /\ resp.rows[i].id > resp.rows[j].id
  /\ LogsCsvAnswered =>
       LET rows == LogsExportRows(resp.query) IN
       /\ Len(resp.lines) = Len(rows)
       /\ \A i \in 1..Len(rows) : resp.lines[i][1] = rows[i].date
       /\ \A i, j \in 1..Len(rows) : i < j =>
            \/ DateBefore(rows[i].date, rows[j].date)
            \/ /\ SameDate(rows[i].date, rows[j].date)
               /\ rows[i].id < rows[j].id
  /\ StopsCsvAnswered =>
       LET js == StopsExportJoined(resp.query) IN
       /\ Len(resp.lines) = Len(js)
       /\ \A i \in 1..Len(js) :
            /\ resp.lines[i][1] = js[i].l.date
            /\ resp.lines[i][4] = Or(js[i].s.stop_no, Num(0))
       /\ \A i, j \in 1..Len(js) : i < j =>
            \/ DateBefore(js[i].l.date, js[j].l.date)
            \/ /\ SameDate(js[i].l.date, js[j].l.date)
               /\ \/ js[i].l.id < js[j].l.id
                  \/ /\ js[i].l.id = js[j].l.id
                     /\ StopNoAtMost(js[i].s.stop_no, js[j].s.stop_no)

\* The stop export emitted a log submitted later before one submitted
\* earlier, and within a log a stop inserted later before an earlier one.
C8_Witness ==
  /\ StopsCsvAnswered
  /\ LET js == StopsExportJoined(resp.query) IN
     /\ \E i, j \in 1..Len(js) : i < j /\ js[i].l.id > js[j].l.id
     /\ \E i, j \in 1..Len(js) :
          i < j /\ js[i].l.id = js[j].l.id /\ js[i].s.id > js[j].s.id

(***************************************************************************)
(* Properties of the ingestion endpoint.  history keeps, per submission,   *)
(* the request, the day, where the handler threw ("no", "insLog", "tx")    *)
(* and the id of the logs row it inserted (0 when it inserted none).       *)
(***************************************************************************)
Absent(v) == v.t = "undefined"
NonNumeric(v) == v.t \in {"string", "object"} /\ ToNumber(v).t = "NaN"

NumericFields ==
  {"start_miles", "end_miles", "rate_mile", "rate_hour", "total_miles",
   "total_value_hours", "gross_pay"}
TextFields ==
  {"driver_name", "driver_email", "cc_email", "truck_num", "start_time",
   "end_time", "total_time", "total_detention"}
StopValueFields ==
  {"stop_no", "type", "location", "arrive", "depart", "duration",
   "detention", "grain_phase"}

LogOf(id) == logs[CHOOSE i \in 1..Len(logs) : logs[i].id = id]
StopRowsOf(id) == SelectSeq(stops, LAMBDA s : s.log_id = id)
Submitted(h) == StopsOf(Body(h.req))

\* C1: a submission with stops one of whose inserts fails leaves the logs
\* and stops tables as they were before the request.
C1_Atomicity ==
  [][(/\ Len(history') = Len(history) + 1
      /\ history'[Len(history')].threw = "tx"
      /\ Len(Submitted(history'[Len(history')])) >= 1)
     => (logs' = logs /\ stops' = stops)]_vars

LogLabels ==
  <<"Date", "Driver Name", "Driver Email", "Truck #", "Start Miles",
    "End Miles", "Start Time", "End Time", "Rate/Mile", "Hourly Rate",
    "Total Miles", "Total Time", "Total Detention", "Total Value (hrs)",
    "Gross Pay">>
StopLabels ==
  <<"Date", "Driver Name", "Truck #", "Stop #", "Type", "Location", "Arrive",
    "Depart", "Duration", "Detention", "Value (hrs)", "Grain Phase">>

\* C3: under every filter set, one with an empty result included, the log
\* export's header row is its 15 labels and the stop export's its 12, in
\* order; an empty result gives the header row and no data row.
C3_HeaderRows ==
  /\ LogsCsvAnswered =>
       /\ resp.columns = LogLabels
       /\ Filtered(resp.query) = {} => resp.lines = <<>>
  /\ StopsCsvAnswered =>
       /\ resp.columns = StopLabels
       /\ Filtered(resp.query) = {} => resp.lines = <<>>

\* C4: every persisted LogEntry has each numeric field a number, 0 when
\* the input was absent or not numeric, each text field a text, "" when
\* the input was absent, the date of the day when the date was omitted,
\* and no NULL; the payload {} persists no stop.
C4_Coercion ==
  \A k \in 1..Len(history) :
    LET h == history[k]
        d == Body(h.req)
    IN h.id # 0 =>
       /\ \A f \in NumericFields :
            /\ LogOf(h.id)[f].t = "number"
            /\ (Absent(d[f]) \/ NonNumeric(d[f])) => LogOf(h.id)[f].n = 0
       /\ \A f \in TextFields :
            /\ LogOf(h.id)[f].t = "string"
            /\ Absent(d[f]) => LogOf(h.id)[f].s = ""
       /\ LogOf(h.id).date.t = "string"
       /\ Absent(d.date) => LogOf(h.id).date.s = FormatDate(h.at)
       /\ LogOf(h.id).created_at.t = "string"
       /\ d = EmptyBody => StopsOfLog(h.id) = {}

\* C5: whatever the payload, the endpoint answers {ok: true, id}.
C5_NeverRejected ==
  resp.op = "submit" => resp.status = 200 /\ resp.ok /\ resp.id >= 1

\* C6: a stop of a successful submission persists value_hours NULL when it
\* was sent as "", 0 when it was absent, else its number; no other field
\* of a StopEntry is ever NULL.
C6_ValueHours ==
  \A k \in 1..Len(history) :
    LET h == history[k]
        rows == StopRowsOf(h.id)
    IN h.threw = "no" =>
       /\ Len(rows) = Len(Submitted(h))
       /\ \A i \in 1..Len(rows) :
            LET v == Submitted(h)[i].f.value_hours IN
            /\ v = Str("") => rows[i].value_hours = Null
            /\ Absent(v) => rows[i].value_hours = Num(0)
            /\ (~Absent(v) /\ v # Str("") /\ ToNumber(v).t = "number")
                 => rows[i].value_hours = ToNumber(v)
            /\ \A f \in StopValueFields : rows[i][f] # Null

\* C9: LogEntry ids are unique and grow from submission to submission;
\* every StopEntry's log_id is the id of exactly one LogEntry, the one its
\* own submission created, and the stops of a LogEntry are the stops of
\* that submission, all of them.
C9_Referential ==
  /\ \A i, j \in 1..Len(logs) : i # j => logs[i].id # logs[j].id
  /\ \A i \in 1..Len(logs) : \E k \in 1..Len(history) : history[k].id = logs[i].id
  /\ \A i, j \in 1..Len(history) :
       (i < j /\ history[i].id # 0 /\ history[j].id # 0)
         => history[i].id < history[j].id
  /\ \A n \in 1..Len(stops) :
       /\ Cardinality({i \in 1..Len(logs) : logs[i].id = stops[n].log_id}) = 1
       /\ \E k \in 1..Len(history) :
            LET h == history[k]
                rows == StopRowsOf(h.id)
            IN /\ h.id = stops[n].log_id
               /\ h.threw = "no"
               /\ Len(rows) = Len(Submitted(h))
               /\ \A i \in 1..Len(rows) :
                    rows[i] = StopRow(rows[i].id, StopParams(h.id, Submitted(h)[i]))

\* A submission whose transaction threw, then one that persisted stops.
C9_Witness ==
  /\ Len(history) >= 2
  /\ history[1].threw = "tx"
  /\ history[2].threw = "no"
  /\ StopsOfLog(history[2].id) # {}

\* C10: a submission is all or nothing and the stops of one submission
\* are one block of the stops table: the admin view shows no LogEntry
\* with only some, or none, of the stops that were submitted with it.
C10_NoPartialSubmission ==
  /\ \A a, b, c \in 1..Len(stops) :
       (a < b /\ b < c /\ stops[a].log_id = stops[c].log_id)
         => stops[b].log_id = stops[a].log_id
  /\ AdminAnswered =>
       \A i \in 1..Len(resp.rows) :
         \A k \in 1..Len(history) :
           history[k].id = resp.rows[i].id =>
             Cardinality(StopsOfLog(resp.rows[i].id)) = Len(Submitted(history[k]))

====
